---- MODULE Spec2Model ----
(***************************************************************************)
(* Quiz session state machine of the class4 test bot (src/main.py).        *)
(*                                                                         *)
(* One chat is modelled: its chat_data dictionary and the size of the      *)
(* question bank.  A handler is an operator from chat_data and the update  *)
(* to the new chat_data and what the bot rendered (out).  Every handler    *)
(* runs to completion before the next update is taken (the application is *)
(* built without concurrent updates), so one action is one whole handler,  *)
(* the antispam wrapper included.                                          *)
(*                                                                         *)
(* Abstractions, all on the environment side:                              *)
(*  - message ids are drawn from 1..MaxMsg and an id is reused once        *)
(*    chat_data no longer refers to it (the code only compares ids);       *)
(*  - time is two flags: whether _lock_at / _last_start_at were set less   *)
(*    than LOCK_TTL ago; an update arrives either before any of them has   *)
(*    run out or after both have;                                          *)
(*  - keys records the presence of the keys whose presence the code or a   *)
(*    property reads (mode, exam_questions); an absent key holds the       *)
(*    default its .get() gives;                                            *)
(*  - summary_message_id is 1 when it holds an id (that id is only         *)
(*    deleted, never compared); lang_prompt_id, history_ids and            *)
(*    wrong_steps, which drive deletions and the progress bar only, are    *)
(*    left out;                                                            *)
(*  - the bank holds no image files, so questions are sent as text.        *)
(***************************************************************************)
EXTENDS Integers, Sequences, FiniteSets, TLC

(* ------------------------------ bounds --------------------------------- *)
\* a bank too small for an exam
SmallBank == 3
\* a bank large enough for an exam has EXAM_SIZE + BankExtra questions
BankExtra == 1
\* message ids in use at one time
MaxMsg == 3
\* seeds of the random generator behind random.sample
NSeeds == 2
\* answers a user gives in one learning run (jumps make a run endless)
MaxLearnAnswers == 4
\* length of the exam orders the selection is tried on
SelectLen == 3

(* ------------------------- program constants --------------------------- *)
EXAM_SIZE == 30
PASS_SCORE == 25
FAIL_THRESHOLD == 6
NOPTIONS == 4

BankSizes == {SmallBank, EXAM_SIZE + BankExtra}

\* QUESTIONS[q]["answer_index"] of the bank fixture
AnswerIndex(q) == q % NOPTIONS
\* "explanation" in QUESTIONS[q]
HasExplanation(q) == q % 3 # 2

VARIABLES chat_data, bank

vars == <<chat_data, bank>>

(* --------------------------- chat_data dict ---------------------------- *)
\* chat_data with no key: every field holds the default its .get() gives.
\* Ids: 0 stands for None.  _lock_at / _last_start_at: TRUE = set less than
\* LOCK_TTL ago.
EmptyData ==
  [keys |-> {},
   mode |-> "learning", lang_mode |-> "en",
   current_index |-> 0, score |-> 0, wrong_count |-> 0,
   paused |-> FALSE, resume_question |-> 0, awaiting_next |-> FALSE,
   used_questions |-> <<>>, exam_questions |-> <<>>,
   last_message_id |-> 0, last_has_kb |-> FALSE,
   summary_message_id |-> 0, _consumed_msg_id |-> 0,
   _sending_question |-> FALSE,
   _lock_at |-> FALSE, _last_start_at |-> FALSE]

\* the keys whose presence is recorded
Tracked == {"mode", "exam_questions"}

Has(cd, k) == k \in cd.keys
Put(cd, k, v) == [cd EXCEPT ![k] = v, !.keys = @ \cup ({k} \cap Tracked)]
Pop(cd, k) == [cd EXCEPT ![k] = EmptyData[k], !.keys = @ \ {k}]

\* the id the transport gives the next question message: a fresh one, so
\* none that chat_data still holds
NewId(cd) ==
  LET held == {cd.last_message_id, cd._consumed_msg_id}
      free == (1..MaxMsg) \ held
  IN CHOOSE i \in free : \A j \in free : i <= j

\* the id of a message that is only ever deleted
SomeId == 1

(* ------------------------------ renders -------------------------------- *)
\* what one update made the bot do
NoOut ==
  [handler |-> "none", question |-> -1, feedback |-> "none",
   explanation |-> FALSE, result |-> "none", error |-> "none",
   prompt |-> "none", raised |-> FALSE, score |-> -1]

(* --------------------------- random.sample ----------------------------- *)
\* the generator's draw number i below m, for one seed
RandBelow(seed, i, m) == (seed * (2 * i + 1) + i) % m

\* a selection that leaves the drawn slot in the pool
RECURSIVE SampleFrom_NoRefill(_, _, _, _, _)
SampleFrom_NoRefill(pool, live, k, seed, acc) ==
  IF Len(acc) = k THEN acc
  ELSE LET j == RandBelow(seed, Len(acc), live) + 1
       IN SampleFrom_NoRefill(pool, live - 1, k, seed, Append(acc, pool[j]))

\* random.sample(range(n), k): selection without replacement from a pool;
\* the drawn slot is refilled with the pool's last live entry
RECURSIVE SampleFrom(_, _, _, _, _)
SampleFrom(pool, live, k, seed, acc) ==
  IF Len(acc) = k THEN acc
  ELSE LET j == RandBelow(seed, Len(acc), live) + 1
       IN SampleFrom([pool EXCEPT ![j] = pool[live]], live - 1, k, seed,
                     Append(acc, pool[j]))

RandomSample(n, k, seed) == SampleFrom([i \in 1..n |-> i - 1], n, k, seed, <<>>)

\* the samples random.sample can return, by bank size and seed
Seeds == 0..(NSeeds - 1)

SampleTable ==
  [n \in {b \in BankSizes : b >= EXAM_SIZE}, seed \in Seeds |->
     RandomSample(n, EXAM_SIZE, seed)]

Range(s) == {s[i] : i \in DOMAIN s}

(* ------------------------------ send_score ----------------------------- *)
\* the comparison turned around
ComputePass_Inverted(score) == score < PASS_SCORE

\* passed = score >= 25
ComputePass(score) == score >= PASS_SCORE

\* a variant that keeps the chosen language
Clear_KeepsLanguage(cd) == [EmptyData EXCEPT !.lang_mode = cd.lang_mode]

\* chat_data.clear()
Clear(cd) == EmptyData

\* send_score: the summary, then chat_data.clear().  fail: send_message raises.
SendScore(w, fail) ==
  IF fail THEN [w EXCEPT !.out.raised = TRUE]
  ELSE LET cd == w.cd
           res == IF cd.mode = "exam"
                  THEN (IF ComputePass(cd.score) THEN "passed" ELSE "not_passed")
                  ELSE "learning"
           noted == Put(cd, "summary_message_id", SomeId)
       IN [cd |-> Clear(noted),
           out |-> [w.out EXCEPT !.result = res, !.score = cd.score]]

(* ----------------------------- send_question --------------------------- *)
\* _purge_open_question: delete the last question if its keyboard is open
PurgeOpenQuestion(cd) ==
  IF cd.last_message_id # 0 /\ cd.last_has_kb
  THEN Put(Put(cd, "last_message_id", 0), "last_has_kb", FALSE)
  ELSE cd

\* first position >= from whose entry is unused, else 0 (none)
FirstUnusedFrom(order, used, from) ==
  LET seen == Range(used)
      cand == {i \in from..Len(order) : order[i] \notin seen}
  IN IF cand = {} THEN 0 ELSE CHOOSE i \in cand : \A j \in cand : i <= j

\* a variant that always scans from the start of the order
SelectNext_FromStart(order, used, current_index) == FirstUnusedFrom(order, used, 1)

\* the position send_question picks in exam mode (1-based; 0 = none):
\* forward from current_index, then from the start
SelectNext(order, used, current_index) ==
  LET fwd == FirstUnusedFrom(order, used, current_index + 1)
  IN IF fwd # 0 THEN fwd ELSE FirstUnusedFrom(order, used, 1)

\* the message with the question went out: remember it
QuestionSent(w, q) ==
  LET cd == w.cd
      id == NewId(cd)
      c2 == Put(Put(cd, "last_message_id", id), "last_has_kb", TRUE)
      c3 == Put(Pop(c2, "summary_message_id"), "_consumed_msg_id", 0)
  IN [cd |-> c3, out |-> [w.out EXCEPT !.question = q]]

\* send_question's try block.  fail: the send raises (caught and logged there).
SendQuestionBody(w, fail) ==
  LET index == w.cd.current_index
      cd == PurgeOpenQuestion(w.cd)
      w1 == [w EXCEPT !.cd = cd]
      caught(x) == [x EXCEPT !.out.raised = FALSE]
  IN IF cd.mode = "exam"
     THEN LET pos == SelectNext(cd.exam_questions, cd.used_questions, cd.current_index)
          IN IF pos = 0 THEN caught(SendScore(w1, fail))
             ELSE LET q == cd.exam_questions[pos]
                      c1 == Put(cd, "current_index", pos - 1)
                      c2 == Put(c1, "used_questions", Append(c1.used_questions, q))
                      w2 == [w1 EXCEPT !.cd = c2]
                  IN IF fail THEN w2 ELSE QuestionSent(w2, q)
     ELSE IF index >= bank THEN caught(SendScore(w1, fail))
          ELSE IF fail THEN w1 ELSE QuestionSent(w1, index)

SendQuestion(w, fail) ==
  IF w.cd._sending_question THEN w
  ELSE LET w1 == [w EXCEPT !.cd = Put(w.cd, "_sending_question", TRUE)]
           w2 == SendQuestionBody(w1, fail)
       IN [w2 EXCEPT !.cd = Put(w2.cd, "_sending_question", FALSE)]

(* ------------------------------- antispam ------------------------------ *)
\* a wrapper that lets every update through
Passes_Always(cd, command) == TRUE

\* the wrapper lets the handler run: lock acquired, or a '/' command
Passes(cd, command) == ~cd._lock_at \/ command

\* _try_acquire_lock: a free lock is taken, a busy one is left as it is
Acquire(cd) == IF cd._lock_at THEN cd ELSE Put(cd, "_lock_at", TRUE)

\* _release_lock
ReleaseLock(cd) == Put(cd, "_lock_at", FALSE)

(* ---------------------------- purge helpers ---------------------------- *)
\* _purge_ui_soft
PurgeUiSoft(cd) ==
  LET c1 == IF cd.last_message_id # 0 /\ cd.last_has_kb
            THEN Pop(Put(Put(cd, "last_message_id", 0), "last_has_kb", FALSE),
                     "_sending_question")
            ELSE cd
  IN Pop(c1, "summary_message_id")

\* _purge_old_ui
PurgeOldUi(cd) == Pop(Pop(cd, "last_message_id"), "summary_message_id")

\* _purge_history: deletes the remembered messages
PurgeHistory(cd) == cd

(* --------------------------------- start ------------------------------- *)
\* a reset that keeps the exam order
StartReset_KeepsOrder(cd) ==
  LET c1 == Put(cd, "_last_start_at", TRUE)
      c2 == Put(Put(Put(c1, "wrong_count", 0), "score", 0), "current_index", 0)
      c3 == Put(c2, "paused", FALSE)
  IN Pop(c3, "used_questions")

\* a reset that leaves paused as it is
StartReset_KeepsPaused(cd) ==
  LET c1 == Put(cd, "_last_start_at", TRUE)
      c2 == Put(Put(Put(c1, "wrong_count", 0), "score", 0), "current_index", 0)
  IN Pop(Pop(c2, "used_questions"), "exam_questions")

\* the state reset at the top of start
StartReset(cd) ==
  LET c1 == Put(cd, "_last_start_at", TRUE)
      c2 == Put(Put(Put(c1, "wrong_count", 0), "score", 0), "current_index", 0)
      c3 == Put(c2, "paused", FALSE)
  IN Pop(Pop(c3, "used_questions"), "exam_questions")

\* start, below the wrapper.  fail: sending the language prompt raises.
StartBody(w, fail) ==
  IF w.cd._last_start_at THEN [w EXCEPT !.out.handler = "start_debounced"]
  ELSE LET c1 == StartReset(w.cd)
           c2 == IF c1.last_message_id # 0 THEN Put(c1, "last_has_kb", FALSE) ELSE c1
           c3 == PurgeHistory(Pop(c2, "summary_message_id"))
           offer == IF c3.paused THEN "lang_continue" ELSE "lang"
           c4 == PurgeUiSoft(c3)
           c5 == ReleaseLock(c4)
       IN IF fail
          THEN [cd |-> c4, out |-> [w.out EXCEPT !.handler = "start", !.raised = TRUE]]
          ELSE [cd |-> c5, out |-> [w.out EXCEPT !.handler = "start", !.prompt = offer]]

\* start as registered: wrapped by antispam
Start(w, command, fail) ==
  IF Passes(w.cd, command) THEN StartBody([w EXCEPT !.cd = Acquire(w.cd)], fail)
  ELSE w

\* a variant that leaves the markers of the open question message
StopBody_KeepsQuestion(w) ==
  [cd |-> [EmptyData EXCEPT !.last_message_id = w.cd.last_message_id,
                            !.last_has_kb = w.cd.last_has_kb],
   out |-> [w.out EXCEPT !.handler = "stop_command"]]

\* stop_command, below the wrapper
StopBody(w) ==
  LET c1 == PurgeHistory(PurgeOldUi(w.cd))
  IN [cd |-> Put(Clear(c1), "_lock_at", FALSE),
      out |-> [w.out EXCEPT !.handler = "stop_command"]]

\* handle_main_menu, below the wrapper: clear, then start through its wrapper
MainMenuBody(w, fail) ==
  LET c1 == PurgeUiSoft(w.cd)
  IN Start([cd |-> Clear(c1), out |-> w.out], FALSE, fail)

(* ---------------------------- handle_language -------------------------- *)
\* a variant that takes every choice for English
LangOf_English(data) == "en"

\* the language of a language button
LangOf(data) == IF data = "lang_en" THEN "en" ELSE "bilingual"

HandleLanguage(w, data) ==
  LET c1 == PurgeUiSoft(w.cd)
      c2 == Put(c1, "lang_mode", LangOf(data))
      c3 == Put(Put(c2, "current_index", 0), "score", 0)
  IN [cd |-> c3, out |-> [w.out EXCEPT !.handler = "handle_language", !.prompt = "mode"]]

(* ------------------------------ handle_mode ---------------------------- *)
ModeOf(data) == IF data = "mode_learning" THEN "learning" ELSE "exam"

\* a variant that keeps the counters of the run before
ModeReset_KeepsCounters(cd, mode) ==
  LET c1 == Put(PurgeHistory(cd), "mode", mode)
      c2 == Put(Put(c1, "current_index", 0), "paused", FALSE)
  IN PurgeUiSoft(c2)

\* the resets every mode choice makes
ModeReset(cd, mode) ==
  LET c1 == Put(PurgeHistory(cd), "mode", mode)
      c2 == Put(Put(Put(c1, "current_index", 0), "score", 0), "paused", FALSE)
      c3 == Put(c2, "wrong_count", 0)
  IN PurgeUiSoft(c3)

\* fail: "reply" = editing in the mode description raises, "send" = the
\* first question's send raises
HandleMode(w, data, seed, fail) ==
  LET mode == ModeOf(data)
      c1 == ModeReset(w.cd, mode)
      c2 == IF mode = "exam" THEN Put(c1, "used_questions", <<>>) ELSE c1
      o1 == [w.out EXCEPT !.handler = "handle_mode"]
  IN IF mode = "exam" /\ bank < EXAM_SIZE
     THEN [cd |-> c2, out |-> [o1 EXCEPT !.error = "InsufficientQuestions"]]
     ELSE LET c3 == IF mode = "exam"
                    THEN Put(c2, "exam_questions", SampleTable[bank, seed])
                    ELSE c2
          IN IF fail = "reply" THEN [cd |-> c3, out |-> [o1 EXCEPT !.raised = TRUE]]
             ELSE SendQuestion([cd |-> c3, out |-> o1], fail = "send")

(* ----------------------------- answer_handler -------------------------- *)
\* a check that takes every callback for the open question's
IsStaleCallback_Never(cd, msg_id) == FALSE

\* a check that looks at the message id only
IsStaleCallback_IdOnly(cd, msg_id) == msg_id # cd.last_message_id

\* _is_stale_callback
IsStaleCallback(cd, msg_id) == msg_id # cd.last_message_id \/ ~cd.last_has_kb

\* option_map.get(data, -1)
OptionOf(data) ==
  CASE data = "A" -> 0 [] data = "B" -> 1 [] data = "C" -> 2 [] data = "D" -> 3
    [] OTHER -> -1

\* the bank index the answer is scored against; -1 where the lookup raises
QuestionIndex(cd) ==
  IF cd.mode = "exam"
  THEN IF cd.used_questions # <<>> THEN cd.used_questions[Len(cd.used_questions)]
       ELSE IF Has(cd, "exam_questions") /\ cd.current_index < Len(cd.exam_questions)
            THEN cd.exam_questions[cd.current_index + 1]
            ELSE -1
  ELSE cd.current_index

\* is_correct = selected_index == correct_index
IsCorrect(q, selected) == selected = AnswerIndex(q)

\* a variant that counts every button answer as wrong
ScoreButton_AlwaysWrong(cd, correct) == Put(cd, "wrong_count", cd.wrong_count + 1)

\* the counter update of a button answer
ScoreButton(cd, correct) ==
  IF correct THEN Put(cd, "score", cd.score + 1)
  ELSE IF cd.mode \in {"exam", "learning"}
       THEN Put(cd, "wrong_count", cd.wrong_count + 1)
       ELSE cd

\* a variant that counts a correct text answer twice
ScoreText_Twice(cd, correct) ==
  IF correct THEN Put(cd, "score", cd.score + 2)
  ELSE IF cd.mode = "learning"
       THEN Put(cd, "wrong_count", cd.wrong_count + 1)
       ELSE cd

\* a variant that gives the point for every text answer
ScoreText_Generous(cd, correct) == Put(cd, "score", cd.score + 1)

\* the counter update of a text answer
ScoreText(cd, correct) ==
  IF correct THEN Put(cd, "score", cd.score + 1)
  ELSE IF cd.mode = "learning"
       THEN Put(cd, "wrong_count", cd.wrong_count + 1)
       ELSE cd

\* a threshold that is passed only above 6
ShouldFailFast_Above(cd) == cd.mode = "exam" /\ cd.wrong_count > FAIL_THRESHOLD

\* mode == "exam" and wrong_count >= 6
ShouldFailFast(cd) == cd.mode = "exam" /\ cd.wrong_count >= FAIL_THRESHOLD

\* len(exam_questions) in exam mode, len(QUESTIONS) otherwise
MaxQuestions(cd) == IF cd.mode = "exam" THEN Len(cd.exam_questions) ELSE bank

\* a variant that renders again without moving the cursor
AdvanceAndSend_NoStep(w, fail) == SendQuestion(w, fail = "send")

\* current_index += 1, then the next question or the summary
AdvanceAndSend(w, fail) ==
  LET c1 == Pop(Put(w.cd, "current_index", w.cd.current_index + 1), "awaiting_next")
      w1 == [w EXCEPT !.cd = c1]
  IN IF c1.current_index < MaxQuestions(c1)
     THEN SendQuestion(w1, fail = "send")
     ELSE SendScore(w1, fail = "send")

\* the explanation line of the button feedback
ExplainButton(cd, q, correct) ==
  ~(cd.mode = "exam" \/ ~correct) /\ cd.mode = "learning" /\ HasExplanation(q)

\* the explanation line of the text feedback
ExplainText(cd, q, correct) == cd.mode = "learning" /\ HasExplanation(q)

\* the scored part of a button answer
ScoredButton(w, msg_id, q, selected, fail) ==
  LET correct == IsCorrect(q, selected)
      c1 == ScoreButton(w.cd, correct)
      o1 == [w.out EXCEPT !.feedback = IF correct THEN "correct" ELSE "incorrect"]
  IN IF ShouldFailFast(c1)
     THEN IF fail = "reply" THEN [cd |-> c1, out |-> [o1 EXCEPT !.raised = TRUE]]
          ELSE [cd |-> Clear(c1), out |-> [o1 EXCEPT !.result = "failed"]]
     ELSE IF fail = "reply" THEN [cd |-> c1, out |-> [o1 EXCEPT !.raised = TRUE]]
          ELSE LET c2 == Put(Put(c1, "last_message_id", msg_id), "last_has_kb", FALSE)
                   o2 == [o1 EXCEPT !.explanation = ExplainButton(c1, q, correct)]
               IN AdvanceAndSend([cd |-> c2, out |-> o2], fail)

\* answer_handler for a callback query, below the wrapper.  The branch
\* "if not chat_data" cannot be taken: _consumed_msg_id was just stored.
AnswerButton(w, msg_id, data, fail) ==
  LET cd == w.cd
      o1 == [w.out EXCEPT !.handler = "answer_handler"]
  IN IF IsStaleCallback(cd, msg_id) THEN [cd |-> cd, out |-> [o1 EXCEPT !.error = "Stale"]]
     ELSE IF cd._consumed_msg_id = msg_id
          THEN [cd |-> cd, out |-> [o1 EXCEPT !.error = "Consumed"]]
     ELSE LET c1 == Put(cd, "_consumed_msg_id", msg_id)
              q == QuestionIndex(c1)
              selected == OptionOf(data)
              limit == IF c1.mode = "exam" THEN EXAM_SIZE ELSE bank
          IN IF c1.mode = "exam" /\ ~Has(c1, "exam_questions")
             THEN [cd |-> c1, out |-> [o1 EXCEPT !.error = "ExamDataMissing"]]
             ELSE IF q = -1 THEN [cd |-> c1, out |-> [o1 EXCEPT !.raised = TRUE]]
             ELSE IF c1.current_index < limit /\ 0 <= selected /\ selected < NOPTIONS
                  THEN ScoredButton([cd |-> c1, out |-> o1], msg_id, q, selected, fail)
                  ELSE [cd |-> c1, out |-> [o1 EXCEPT !.error = "OutOfRange"]]

\* text.lower()
Lower(t) ==
  CASE t = "A" -> "a" [] t = "B" -> "b" [] t = "C" -> "c" [] t = "D" -> "d"
    [] OTHER -> t

\* a variant that takes every text for option A
ResolveText_Guess(t) == 0

\* the option a text resolves to (the letters A-D, any case); -1 if none
ResolveText(t) ==
  LET u == Lower(t)
  IN CASE u = "a" -> 0 [] u = "b" -> 1 [] u = "c" -> 2 [] u = "d" -> 3
       [] OTHER -> -1

\* answer_handler for a text that is not a number, below the wrapper
AnswerText(w, t, fail) ==
  LET cd == w.cd
      o1 == [w.out EXCEPT !.handler = "answer_handler"]
      q == QuestionIndex(cd)
      selected == ResolveText(t)
  IN IF ~Has(cd, "mode") THEN [cd |-> cd, out |-> [o1 EXCEPT !.error = "NotRunning"]]
     ELSE IF q = -1 \/ q >= bank THEN [cd |-> cd, out |-> [o1 EXCEPT !.raised = TRUE]]
     ELSE IF selected < 0 \/ selected >= NOPTIONS
          THEN [cd |-> cd, out |-> [o1 EXCEPT !.error = "Unrecognized"]]
     ELSE LET correct == IsCorrect(q, selected)
              c1 == ScoreText(cd, correct)
              o2 == [o1 EXCEPT !.feedback = IF correct THEN "correct" ELSE "incorrect"]
              o3 == [o2 EXCEPT !.explanation = ExplainText(c1, q, correct)]
          IN IF fail = "reply" THEN [cd |-> c1, out |-> [o2 EXCEPT !.raised = TRUE]]
             ELSE AdvanceAndSend([cd |-> c1, out |-> o3], fail)

\* a variant that takes the question number for the cursor
JumpTarget_Number(n) == n

\* a variant that lands one question before the one asked for
JumpTarget_Before(n) == n - 2

\* the cursor of question number n
JumpTarget(n) == n - 1

\* a variant that lets a number jump in any mode
JumpAllowed_AnyMode(cd) == TRUE

\* numeric jump is only for learning mode
JumpAllowed(cd) == cd.mode = "learning"

\* answer_handler for a text of digits (numeric jump), below the wrapper
AnswerNumber(w, n, fail) ==
  LET cd == w.cd
      o1 == [w.out EXCEPT !.handler = "answer_handler"]
  IN IF ~Has(cd, "mode") THEN [cd |-> cd, out |-> [o1 EXCEPT !.error = "NotRunning"]]
     ELSE IF ~JumpAllowed(cd) THEN [cd |-> cd, out |-> [o1 EXCEPT !.error = "ModeNotAllowed"]]
     ELSE IF 1 <= n /\ n <= bank
          THEN LET c1 == IF cd.last_message_id # 0 /\ cd.last_has_kb
                         THEN Put(Put(cd, "last_message_id", 0), "last_has_kb", FALSE)
                         ELSE cd
                   c2 == Put(c1, "current_index", JumpTarget(n))
               IN SendQuestion([cd |-> c2, out |-> o1], fail = "send")
          ELSE [cd |-> cd, out |-> [o1 EXCEPT !.error = "OutOfRange"]]

(* ------------------------------ next_handler --------------------------- *)
\* a variant that takes every next/continue tap as due
NextActive_Always(cd) == TRUE

\* a variant that takes an open question for the flag
NextActive_WhenOpen(cd) == cd.last_has_kb

\* chat_data.get("awaiting_next")
NextActive(cd) == cd.awaiting_next

NextHandler(w, data, fail) ==
  LET cd == w.cd
      o1 == [w.out EXCEPT !.handler = "next_handler"]
  IN IF ~NextActive(cd)
     THEN [cd |-> cd, out |-> [o1 EXCEPT !.error = "NotActive"]]
     ELSE IF data = "RESTART"
          THEN Start([cd |-> Clear(cd), out |-> o1], FALSE, fail = "send")
     ELSE IF data = "CONTINUE"
          THEN LET c1 == Put(Pop(cd, "resume_question"), "current_index", cd.resume_question)
               IN SendQuestion([cd |-> Pop(c1, "awaiting_next"), out |-> o1], fail = "send")
     ELSE AdvanceAndSend([cd |-> cd, out |-> o1], fail)

(* ----------------------------- pause / resume -------------------------- *)
HandlePause(w) ==
  LET c1 == Put(PurgeUiSoft(w.cd), "paused", TRUE)
      c2 == Put(c1, "resume_question", c1.current_index)
  IN [cd |-> c2, out |-> [w.out EXCEPT !.handler = "handle_pause"]]

HandleResumePause(w, fail) ==
  LET c1 == Put(PurgeUiSoft(w.cd), "paused", FALSE)
      c2 == Put(c1, "current_index", c1.resume_question)
  IN SendQuestion([cd |-> c2, out |-> [w.out EXCEPT !.handler = "handle_resume_pause"]],
                  fail = "send")

(* ------------------------------- dispatch ------------------------------ *)
\* callback data of the buttons this bot and its earlier revisions render,
\* and of the handlers' patterns
CallbackData ==
  {"A", "B", "C", "D", "STOP", "lang_en", "lang_bilingual",
   "mode_learning", "mode_exam", "mode_pause",
   "NEXT", "CONTINUE", "RESTART", "RESUME_PAUSE", "MAIN_MENU", "start_exam"}

\* the callback handlers in registration order, each with the data its
\* pattern matches
Registered ==
  << [name |-> "next_handler", matches |-> {"NEXT", "CONTINUE", "RESTART"}],
     [name |-> "answer_handler", matches |-> {"A", "B", "C", "D", "STOP"}],
     [name |-> "handle_language", matches |-> {"lang_en", "lang_bilingual"}],
     [name |-> "handle_mode", matches |-> {"mode_learning", "mode_exam", "mode_pause"}],
     [name |-> "handle_pause", matches |-> {"mode_pause"}],
     [name |-> "handle_resume_pause", matches |-> {"RESUME_PAUSE"}],
     [name |-> "handle_main_menu", matches |-> {"MAIN_MENU"}] >>

\* a variant in which the handler registered last wins
Dispatch_LastMatch(data) ==
  LET hits == {i \in DOMAIN Registered : data \in Registered[i].matches}
  IN IF hits = {} THEN "none"
     ELSE Registered[CHOOSE i \in hits : \A j \in hits : i >= j].name

\* the first registered handler whose pattern matches
Dispatch(data) ==
  LET hits == {i \in DOMAIN Registered : data \in Registered[i].matches}
  IN IF hits = {} THEN "none"
     ELSE Registered[CHOOSE i \in hits : \A j \in hits : i <= j].name

FailPoints == {"none", "reply", "send"}

\* the timers in `gone` ran out since the update before this one
Expire(cd, gone) ==
  [cd EXCEPT !._lock_at = @ /\ "_lock_at" \notin gone,
             !._last_start_at = @ /\ "_last_start_at" \notin gone]

\* the timers of cd that are running
Running(cd) ==
  {t \in {"_lock_at", "_last_start_at"} : cd[t]}

World(cd) == [cd |-> cd, out |-> NoOut]

Dropped(cd) == [cd |-> cd, out |-> [NoOut EXCEPT !.handler = "dropped"]]

\* one callback query: the dispatched handler under its antispam wrapper
Callback(cd, data, msg_id, seed, fail) ==
  LET h == Dispatch(data)
      w == World(Acquire(cd))
  IN IF h = "none" THEN World(cd)
     ELSE IF ~Passes(cd, FALSE) THEN Dropped(cd)
     ELSE CASE h = "next_handler" -> NextHandler(w, data, fail)
            [] h = "answer_handler" -> AnswerButton(w, msg_id, data, fail)
            [] h = "handle_language" -> HandleLanguage(w, data)
            [] h = "handle_mode" -> HandleMode(w, data, seed, fail)
            [] h = "handle_pause" -> HandlePause(w)
            [] h = "handle_resume_pause" -> HandleResumePause(w, fail)
            [] h = "handle_main_menu" -> MainMenuBody(w, fail = "send")

\* one text message that is no command: the restart button's text goes to
\* start, a text of digits and any other text to answer_handler
TextMessage(cd, kind, t, n, fail) ==
  IF ~Passes(cd, FALSE) THEN Dropped(cd)
  ELSE CASE kind = "restart" -> StartBody(World(Acquire(cd)), fail = "send")
         [] kind = "number" -> AnswerNumber(World(Acquire(cd)), n, fail)
         [] OTHER -> AnswerText(World(Acquire(cd)), t, fail)

\* the command /start
StartCommand(cd, fail) == Start(World(cd), TRUE, fail)

\* the command /stop
StopCommand(cd) == StopBody(World(Acquire(cd)))

(* ------------------------------- updates ------------------------------ *)
\* an update from the transport
Ev(kind, data, m, seed, t, n) ==
  [kind |-> kind, data |-> data, m |-> m, seed |-> seed, t |-> t, n |-> n]

Texts == {"A", "b", "C", "d", "zzz"}

Letters == {"A", "B", "C", "D"}

JumpInputs == {0, 1, 2, bank - 1, bank, bank + 1}

MsgIds == 1..MaxMsg

StartEvents == {Ev("start", "", 0, 0, "", 0)}
StopEvents == {Ev("stop", "", 0, 0, "", 0)}
RestartEvents == {Ev("restart", "", 0, 0, "", 0)}
TextEvents == {Ev("text", "", 0, 0, t, 0) : t \in Texts}
NumberEvents == {Ev("number", "", 0, 0, "", n) : n \in JumpInputs}
TapEvents == {Ev("callback", d, m, 0, "", 0) : d \in Letters \cup {"STOP"}, m \in MsgIds}
LanguageEvents == {Ev("callback", d, 0, 0, "", 0) : d \in {"lang_en", "lang_bilingual"}}
ModeEvents ==
  {Ev("callback", d, 0, seed, "", 0) :
     d \in {"mode_learning", "mode_exam", "mode_pause"}, seed \in Seeds}
NextEvents == {Ev("callback", d, 0, 0, "", 0) : d \in {"NEXT", "CONTINUE", "RESTART"}}
ResumeEvents == {Ev("callback", "RESUME_PAUSE", 0, 0, "", 0)}
MainMenuEvents == {Ev("callback", "MAIN_MENU", 0, 0, "", 0)}

\* what the application does with update e when chat_data is cd
Apply(cd, e) ==
  CASE e.kind = "start" -> StartCommand(cd, FALSE)
    [] e.kind = "stop" -> StopCommand(cd)
    [] e.kind = "callback" -> Callback(cd, e.data, e.m, e.seed, "none")
    [] OTHER -> TextMessage(cd, e.kind, e.t, e.n, "none")

(* ------------------------------- actions ------------------------------- *)
\* answers a user gives in one run
AnswerCap(cd) == IF cd.mode = "learning" THEN MaxLearnAnswers ELSE EXAM_SIZE

MayAnswer == chat_data.score + chat_data.wrong_count < AnswerCap(chat_data)

\* chat_data when the next update arrives: within LOCK_TTL of the update
\* before it, or after every running timer has run out
Arrivals == {Expire(chat_data, gone) : gone \in {{}, Running(chat_data)}}

Becomes(w) == chat_data' = w.cd /\ UNCHANGED bank

Init == chat_data = EmptyData /\ bank \in BankSizes

\* /start
CmdStart == \E cd \in Arrivals, e \in StartEvents : Becomes(Apply(cd, e))

\* /stop
CmdStop == \E cd \in Arrivals, e \in StopEvents : Becomes(Apply(cd, e))

\* the text of the reply keyboard's restart button
TextRestart == \E cd \in Arrivals, e \in RestartEvents : Becomes(Apply(cd, e))

\* any other text that is not a number
TextAnswer == MayAnswer /\ \E cd \in Arrivals, e \in TextEvents : Becomes(Apply(cd, e))

\* a text of digits
TextNumber == \E cd \in Arrivals, e \in NumberEvents : Becomes(Apply(cd, e))

\* a tap on a button of a question message
AnswerTap == MayAnswer /\ \E cd \in Arrivals, e \in TapEvents : Becomes(Apply(cd, e))

LanguageTap == \E cd \in Arrivals, e \in LanguageEvents : Becomes(Apply(cd, e))

ModeTap == \E cd \in Arrivals, e \in ModeEvents : Becomes(Apply(cd, e))

NextTap == \E cd \in Arrivals, e \in NextEvents : Becomes(Apply(cd, e))

ResumeTap == \E cd \in Arrivals, e \in ResumeEvents : Becomes(Apply(cd, e))

MainMenuTap == \E cd \in Arrivals, e \in MainMenuEvents : Becomes(Apply(cd, e))

Next ==
  \/ CmdStart \/ CmdStop \/ TextRestart \/ TextAnswer \/ TextNumber
  \/ AnswerTap \/ LanguageTap \/ ModeTap \/ NextTap \/ ResumeTap
  \/ MainMenuTap

Spec == Init /\ [][Next]_vars

(* ------------------- send_question on drawn exam data ------------------ *)
\* the sequences without repetition over S
Arrangements(S) ==
  {q \in UNION {[1..n -> S] : n \in 0..Cardinality(S)} :
     \A i, j \in DOMAIN q : i # j => q[i] # q[j]}

\* exam data as send_question may be handed it: an order of SelectLen
\* questions, any used list over them, any cursor up to the order's length
SelectInputs ==
  {[EmptyData EXCEPT !.keys = {"mode", "exam_questions"}, !.mode = "exam",
                     !.exam_questions = order, !.used_questions = used,
                     !.current_index = c] :
     order \in {q \in Arrangements(0..(SelectLen - 1)) : Len(q) = SelectLen},
     used \in Arrangements(0..(SelectLen - 1)),
     c \in 0..SelectLen}

InitSelect == bank = SmallBank /\ chat_data \in SelectInputs

\* send_question is called on the exam data
SelectStep ==
  /\ chat_data.mode = "exam" /\ Has(chat_data, "exam_questions")
  /\ Becomes(SendQuestion(World(chat_data), FALSE))

SpecSelect == InitSelect /\ [][SelectStep]_vars

(* ------------------- a run of answers and nothing else ----------------- *)
\* a quiz is running: a mode is chosen and a question is open
Started(cd) == Has(cd, "mode") /\ cd.last_message_id # 0 /\ cd.last_has_kb

\* button answers with an option letter
LetterTaps == {e \in TapEvents : e.data \in Letters}

\* text answers with an option letter
LetterTexts == {e \in TextEvents : Lower(e.t) \in {"a", "b", "c", "d"}}

\* the user picks a mode while no quiz is running
RunStart ==
  /\ ~Started(chat_data)
  /\ \E cd \in Arrivals, e \in ModeEvents :
       e.data \in {"mode_learning", "mode_exam"} /\ Becomes(Apply(cd, e))

\* the user taps an option
RunTap == \E cd \in Arrivals, e \in LetterTaps : Becomes(Apply(cd, e))

\* the user sends an option letter
RunText == \E cd \in Arrivals, e \in LetterTexts : Becomes(Apply(cd, e))

NextRun == RunStart \/ RunTap \/ RunText

\* the user keeps answering: an answer that would be taken is given
SpecRun == Init /\ [][NextRun]_vars /\ WF_vars(RunTap \/ RunText)

(* ----------------------- updates with transport errors ----------------- *)
\* the awaited transport calls that can raise during an update
Faults == FailPoints \ {"none"}

\* what the application does with update e when the transport call `fail`
\* raises (if the handler gets that far)
ApplyF(cd, e, fail) ==
  CASE e.kind = "start" -> StartCommand(cd, fail = "send")
    [] e.kind = "stop" -> StopCommand(cd)
    [] e.kind = "callback" -> Callback(cd, e.data, e.m, e.seed, fail)
    [] OTHER -> TextMessage(cd, e.kind, e.t, e.n, fail)

(* ----------------------------- properties ------------------------------ *)
AnswerEvents == TapEvents \cup TextEvents

\* the update was scored as an answer
Accepted(r) == r.out.feedback # "none"

\* score + wrong_count <= current_index
WithinCursor(cd) == cd.score + cd.wrong_count <= cd.current_index

\* C1: in every reachable state, after any sequence of events,
\* score + wrong_count <= cursor (current_index).
C1_WithinCursor == WithinCursor(chat_data)

\* every update the application takes
Updates ==
  StartEvents \cup StopEvents \cup RestartEvents \cup TextEvents \cup NumberEvents
    \cup TapEvents \cup LanguageEvents \cup ModeEvents \cup NextEvents
    \cup ResumeEvents \cup MainMenuEvents

\* the counters and the cursor of two chat_data agree
SameProgress(a, b) ==
  /\ a.score = b.score /\ a.wrong_count = b.wrong_count
  /\ a.current_index = b.current_index /\ a.used_questions = b.used_questions

\* chat_data cd when the update after it arrives
Later(cd) == {Expire(cd, gone) : gone \in {{}, Running(cd)}}

\* C2: a button answer delivered twice for the same question message leaves
\* score, wrong_count, cursor and used_questions as after the first delivery
\* (the first delivery being one that answer_handler received).
C2_TapTwice ==
  \A cd \in Arrivals, e \in TapEvents :
    LET once == Apply(cd, e).cd
    IN Passes(cd, FALSE) =>
         \A again \in Later(once) : SameProgress(Apply(again, e).cd, once)

\* the first delivery is scored and the second comes with the lock run out
C2_Witness ==
  \E cd \in Arrivals, e \in TapEvents :
    LET r == Apply(cd, e)
    IN /\ Passes(cd, FALSE) /\ Accepted(r) /\ r.out.result = "none"
       /\ r.cd.last_has_kb
       /\ \E again \in Later(r.cd) : Passes(again, FALSE)

NoDuplicates(s) == \A i, j \in DOMAIN s : s[i] = s[j] => i = j

\* C3: in exam mode used_questions has no duplicate, lies within
\* exam_questions, and len(used_questions) <= len(exam_questions) = 30.
C3_UsedWithinSample ==
  chat_data.mode = "exam" =>
    /\ NoDuplicates(chat_data.used_questions)
    /\ Range(chat_data.used_questions) \subseteq Range(chat_data.exam_questions)
    /\ Len(chat_data.used_questions) <= Len(chat_data.exam_questions)
    /\ Len(chat_data.exam_questions) = EXAM_SIZE

\* C4: in exam mode an incorrect answer that brings wrong_count to the
\* threshold (a button answer: only those count in an exam) ends the session
\* at once: the failed result, no question, the session cleared; an answer
\* that leaves wrong_count below the threshold does not fail the session.
C4_FailFast ==
  \A cd \in Arrivals, e \in AnswerEvents :
    LET r == Apply(cd, e)
        reaches == /\ Accepted(r) /\ cd.mode = "exam" /\ r.out.feedback = "incorrect"
                   /\ e \in TapEvents /\ cd.wrong_count + 1 >= FAIL_THRESHOLD
    IN /\ reaches => /\ r.out.result = "failed" /\ r.out.question = -1
                     /\ r.cd = EmptyData
       /\ r.out.result = "failed" => reaches

\* the sixth incorrect button answer of an exam
C4_Witness ==
  /\ chat_data.mode = "exam" /\ chat_data.wrong_count = FAIL_THRESHOLD - 1
  /\ \E cd \in Arrivals, e \in TapEvents : Apply(cd, e).out.result = "failed"

\* C5 as stated: an accepted answer, by button or by text, in either mode,
\* adds 1 to score if it is correct and 1 to wrong_count if it is not, and
\* to nothing else (seen where the run goes on to a next question).
C5_OneCounterPerAnswer ==
  \A cd \in Arrivals, e \in AnswerEvents :
    LET r == Apply(cd, e)
    IN (Accepted(r) /\ r.out.result = "none") =>
         IF r.out.feedback = "correct"
         THEN r.cd.score = cd.score + 1 /\ r.cd.wrong_count = cd.wrong_count
         ELSE r.cd.score = cd.score /\ r.cd.wrong_count = cd.wrong_count + 1

\* the updates that restart the session
Restarts == StartEvents \cup RestartEvents \cup MainMenuEvents

\* score, wrong_count and cursor are zero, no exam order, nothing used
IsReset(cd) ==
  /\ cd.score = 0 /\ cd.wrong_count = 0 /\ cd.current_index = 0
  /\ ~Has(cd, "exam_questions") /\ cd.used_questions = <<>>

\* C6 as stated: a restart from any state resets score, wrong_count and
\* cursor and discards the exam order and used_questions.
C6_Original ==
  \A cd \in Arrivals, e \in Restarts : IsReset(Apply(cd, e).cd)

\* C6 as amended: every restart that start handles (one that the anti-spam
\* lock lets through and that start's debounce does not swallow) resets
\* score, wrong_count and cursor and discards the exam order and
\* used_questions.
C6_HandledRestartResets ==
  \A cd \in Arrivals, e \in Restarts :
    LET r == Apply(cd, e)
    IN r.out.handler = "start" => IsReset(r.cd)

\* /start is handled in an exam that has a score and a wrong answer
C6_Witness ==
  /\ Has(chat_data, "exam_questions") /\ chat_data.score > 0
  /\ chat_data.wrong_count > 0 /\ Len(chat_data.used_questions) > 1
  /\ \E cd \in Arrivals, e \in StartEvents : Apply(cd, e).out.handler = "start"

\* C7 as stated: a handled restart leaves no quiz mode, and no answer that
\* follows it is evaluated or changes score, wrong_count or cursor.
C7_RestartClearsMode ==
  \A cd \in Arrivals, e \in Restarts :
    LET r == Apply(cd, e)
    IN r.out.handler = "start" =>
         /\ ~Has(r.cd, "mode")
         /\ \A next \in Later(r.cd), a \in AnswerEvents :
              LET r2 == Apply(next, a)
              IN ~Accepted(r2) /\ SameProgress(r2.cd, r.cd)

\* cd apart from the anti-spam lock
Unlocked(cd) == [cd EXCEPT !._lock_at = FALSE]

\* C8 as stated: where InsufficientQuestions is reported the session state
\* is untouched and no question is rendered.
C8_StateUntouched ==
  \A cd \in Arrivals, e \in ModeEvents :
    LET r == Apply(cd, e)
    IN r.out.error = "InsufficientQuestions" =>
         r.out.question = -1 /\ Unlocked(r.cd) = Unlocked(cd)

\* C9: choosing the exam with a bank of at least 30 questions stores an
\* exam order of exactly 30 pairwise distinct indices, each in
\* [0, len(bank)).
C9_ExamOrder ==
  \A cd \in Arrivals, e \in ModeEvents :
    LET r == Apply(cd, e)
        order == r.cd.exam_questions
    IN (r.out.handler = "handle_mode" /\ ModeOf(e.data) = "exam"
          /\ bank >= EXAM_SIZE) =>
         /\ Has(r.cd, "exam_questions") /\ Len(order) = EXAM_SIZE
         /\ NoDuplicates(order) /\ Range(order) \subseteq 0..(bank - 1)

\* an exam order is stored that holds the last index of the bank
C9_Witness ==
  /\ bank >= EXAM_SIZE /\ Has(chat_data, "exam_questions")
  /\ bank - 1 \in Range(chat_data.exam_questions)
  /\ chat_data.used_questions # <<>>

\* C10: the exam summary says passed if and only if the score it reports is
\* at least 25.
C10_PassedIff25 ==
  \A cd \in Arrivals, e \in Updates :
    LET r == Apply(cd, e)
    IN r.out.result \in {"passed", "not_passed"} =>
         (r.out.result = "passed" <=> r.out.score >= PASS_SCORE)

\* the last answer of an exam brings the score to exactly 25
C10_Witness ==
  /\ chat_data.mode = "exam" /\ chat_data.score = PASS_SCORE - 1
  /\ \E cd \in Arrivals, e \in AnswerEvents :
       LET r == Apply(cd, e)
       IN r.out.result = "passed" /\ r.out.score = PASS_SCORE

\* the button of the pause option: callback data mode_pause
PauseEvents == {e \in ModeEvents : e.data = "mode_pause"}

\* a question is rendered and waits for its answer
QuestionOpen(cd) == Has(cd, "mode") /\ cd.last_message_id # 0 /\ cd.last_has_kb

\* the update reached its handler
Handled(r) == r.out.handler \notin {"none", "dropped"}

\* C11: pause stores the cursor in resume_question and sets paused; a
\* resume after it restores the cursor, clears paused and renders the
\* question that was open at the pause again, in either mode, with score and
\* wrong_count as they were before the pause.
C11_PauseThenResume ==
  \A cd \in Arrivals, p \in PauseEvents :
    LET r1 == Apply(cd, p)
    IN (QuestionOpen(cd) /\ Handled(r1)) =>
         /\ r1.cd.paused /\ r1.cd.resume_question = cd.current_index
         /\ \A next \in Later(r1.cd), e \in ResumeEvents :
              LET r2 == Apply(next, e)
              IN Handled(r2) =>
                   /\ ~r2.cd.paused /\ r2.cd.current_index = cd.current_index
                   /\ r2.out.question = QuestionIndex(cd)
                   /\ r2.cd.score = cd.score /\ r2.cd.wrong_count = cd.wrong_count

\* the updates that score an answer or render a question on request
Transitions == AnswerEvents \cup NumberEvents \cup ResumeEvents

\* C12: when a send or an edit raises in the middle of an answer or of a
\* question render, score, wrong_count, cursor and used_questions keep the
\* values they had before the update.
C12_AllOrNothing ==
  \A cd \in Arrivals, e \in Transitions, f \in Faults :
    LET r == ApplyF(cd, e, f)
    IN r # Apply(cd, e) => SameProgress(r.cd, cd)

\* C13: a tap whose callback data maps to no option (OutOfRange) leaves
\* score, wrong_count and the cursor as they were, and a following valid
\* answer on the same question message is still accepted and scored.
C13_RetryAfterOutOfRange ==
  \A cd \in Arrivals, e \in TapEvents :
    LET r1 == Apply(cd, e)
    IN (OptionOf(e.data) = -1 /\ r1.out.error = "OutOfRange") =>
         /\ r1.cd.score = cd.score /\ r1.cd.wrong_count = cd.wrong_count
         /\ r1.cd.current_index = cd.current_index
         /\ \A next \in Later(r1.cd), e2 \in TapEvents :
              LET r2 == Apply(next, e2)
              IN (e2.m = e.m /\ OptionOf(e2.data) # -1 /\ Handled(r2)) => Accepted(r2)

\* C14: a question number sent in exam mode is refused with ModeNotAllowed
\* and leaves cursor, score, wrong_count and used_questions unchanged,
\* whatever the number.
C14_NoJumpInExam ==
  \A cd \in Arrivals, e \in NumberEvents :
    LET r == Apply(cd, e)
    IN (Has(cd, "mode") /\ cd.mode = "exam" /\ Handled(r)) =>
         /\ r.out.error = "ModeNotAllowed" /\ r.out.question = -1
         /\ SameProgress(r.cd, cd)

\* an exam with an answer scored, in which a question number is refused
C14_Witness ==
  /\ Has(chat_data, "mode") /\ chat_data.mode = "exam" /\ chat_data.score > 0
  /\ chat_data.used_questions # <<>>
  /\ \E cd \in Arrivals, e \in NumberEvents :
       e.n \in 1..bank /\ Apply(cd, e).out.error = "ModeNotAllowed"

\* C15: in learning mode a question number n with 1 <= n <= len(bank) sets
\* the cursor to n - 1, leaves score and wrong_count unchanged and renders
\* question n; any other number is refused with OutOfRange and the session
\* state is unchanged.
C15_JumpInLearning ==
  \A cd \in Arrivals, e \in NumberEvents :
    LET r == Apply(cd, e)
    IN (Has(cd, "mode") /\ cd.mode = "learning" /\ Handled(r)) =>
         IF 1 <= e.n /\ e.n <= bank
         THEN /\ r.cd.current_index = e.n - 1 /\ r.out.question = e.n - 1
              /\ r.cd.score = cd.score /\ r.cd.wrong_count = cd.wrong_count
              /\ r.out.error = "none" /\ r.out.result = "none"
         ELSE /\ r.out.error = "OutOfRange" /\ r.out.question = -1
              /\ Unlocked(r.cd) = Unlocked(cd)

\* a learning session with answers of both kinds scored, in which a number
\* moves the cursor and another one is refused
C15_Witness ==
  /\ Has(chat_data, "mode") /\ chat_data.mode = "learning"
  /\ chat_data.score > 0 /\ chat_data.wrong_count > 0
  /\ \E cd \in Arrivals, e \in NumberEvents :
       LET r == Apply(cd, e)
       IN r.out.question = e.n - 1 /\ r.cd.current_index # cd.current_index
  /\ \E cd \in Arrivals, e \in NumberEvents : Apply(cd, e).out.error = "OutOfRange"

\* a quiz mode was chosen and the session was not cleared since
InProgress(cd) == Has(cd, "mode")

\* C16: a language choice delivered while a quiz is in progress is a silent
\* no-op: cursor, score, wrong_count and lang_mode stay as they were.
C16_LanguageOutsidePrompt ==
  \A cd \in Arrivals, e \in LanguageEvents :
    LET r == Apply(cd, e)
    IN (InProgress(cd) /\ Handled(r)) =>
         /\ r.cd.current_index = cd.current_index /\ r.cd.score = cd.score
         /\ r.cd.wrong_count = cd.wrong_count /\ r.cd.lang_mode = cd.lang_mode

\* C17: a mode choice delivered while a quiz is in progress is a silent
\* no-op: mode, cursor, score, wrong_count, the exam question order and
\* used_questions stay as they were.
C17_ModeOutsidePrompt ==
  \A cd \in Arrivals, e \in ModeEvents :
    LET r == Apply(cd, e)
    IN (InProgress(cd) /\ Handled(r)) =>
         /\ r.cd.mode = cd.mode /\ SameProgress(r.cd, cd)
         /\ r.cd.exam_questions = cd.exam_questions
         /\ r.out.question = -1

\* the buttons of the mode prompt
ChoiceEvents == {e \in ModeEvents : e.data \in {"mode_learning", "mode_exam"}}

\* C18: a mode choice succeeds in learning mode and, with a bank of at least
\* 30 questions, in exam mode; after it score, wrong_count and cursor are 0
\* and one question is rendered: bank[0] in learning mode, in exam mode the
\* first entry of the new sample, which is then the only element of
\* used_questions.
C18_AfterModeChoice ==
  \A cd \in Arrivals, e \in ChoiceEvents :
    LET r == Apply(cd, e)
    IN Handled(r) =>
         /\ (e.data = "mode_learning" \/ bank >= EXAM_SIZE) <=> r.out.error = "none"
         /\ r.out.error = "none" =>
              /\ r.cd.score = 0 /\ r.cd.wrong_count = 0 /\ r.cd.current_index = 0
              /\ r.cd.last_message_id # 0 /\ r.cd.last_has_kb
              /\ r.out.result = "none"
              /\ IF e.data = "mode_learning"
                 THEN r.cd.mode = "learning" /\ r.out.question = 0
                 ELSE /\ r.cd.mode = "exam"
                      /\ r.cd.exam_questions = SampleTable[bank, e.seed]
                      /\ r.out.question = r.cd.exam_questions[1]
                      /\ r.cd.used_questions = <<r.cd.exam_questions[1]>>

\* a session with answers of both kinds scored in which a mode is chosen,
\* learning as well as exam
C18_Witness ==
  /\ chat_data.score > 0 /\ chat_data.wrong_count > 0 /\ chat_data.current_index > 0
  /\ \A d \in {"mode_learning", "mode_exam"} :
       \E cd \in Arrivals, e \in ChoiceEvents :
         e.data = d /\ Apply(cd, e).out.question # -1

\* a correct answer scored in a learning session
LearningCorrect(cd, r) ==
  InProgress(cd) /\ cd.mode = "learning" /\ r.out.feedback = "correct"

OrderLength(cd) == IF cd.mode = "exam" THEN EXAM_SIZE ELSE bank

\* a summary of a run that was not failed
Summary(r) == r.out.result \in {"passed", "not_passed", "learning"}

\* no question of the exam order is left unused
NoneUnused(cd) == cd.mode = "exam" /\ Range(cd.exam_questions) \subseteq Range(cd.used_questions)

\* an answer was scored and the run goes on to the next question or its end
Advances(cd, r) == InProgress(cd) /\ Accepted(r) /\ r.out.result # "failed"

\* C20: the advance after an answered question adds exactly 1 to the cursor;
\* if the new cursor is below the length of the question order the next
\* question is rendered, otherwise the summary is rendered and the session
\* completes; no question is rendered at a cursor at or beyond the length
\* and no summary below it unless no unused question remains.
C20_AdvanceByOne ==
  \A cd \in Arrivals, e \in AnswerEvents :
    LET r == Apply(cd, e)
        c == cd.current_index
    IN Advances(cd, r) =>
         /\ IF c + 1 < OrderLength(cd)
            THEN r.out.question # -1 /\ r.cd.current_index = c + 1
            ELSE Summary(r) /\ r.out.question = -1 /\ ~InProgress(r.cd)
         /\ r.out.question # -1 => r.cd.current_index < OrderLength(cd)
         /\ Summary(r) => (c + 1 >= OrderLength(cd) \/ NoneUnused(cd))

\* the buttons that ask for the next question
AdvanceEvents == {e \in NextEvents : e.data \in {"NEXT", "CONTINUE"}}

\* C21: a next/continue tap delivered a second time, with no answer between
\* the two deliveries, does not move the cursor again and skips no question.
C21_NextTwice ==
  \A cd \in Arrivals, e \in AdvanceEvents :
    LET r1 == Apply(cd, e)
    IN Handled(r1) =>
         \A next \in Later(r1.cd) :
           LET r2 == Apply(next, e)
           IN Handled(r2) =>
                /\ SameProgress(r2.cd, r1.cd)
                /\ r2.out.question = -1 /\ r2.out.result = "none"

\* a running quiz past its first question with a question open, in which a
\* next tap is handled twice in a row
C21_Witness ==
  /\ QuestionOpen(chat_data) /\ chat_data.current_index > 0
  /\ \E cd \in Arrivals, e \in AdvanceEvents :
       LET r1 == Apply(cd, e)
       IN Handled(r1) /\ \E next \in Later(r1.cd) : Handled(Apply(next, e))

\* the tap is on a message that is not the last rendered question, or on a
\* question whose keyboard is no longer active
Retired(cd, e) == e.m # cd.last_message_id \/ ~cd.last_has_kb

\* C22: a stale button answer is rejected without effect: score,
\* wrong_count, cursor, used_questions and the consumed marker are
\* unchanged.
C22_StaleRejected ==
  \A cd \in Arrivals, e \in TapEvents :
    LET r == Apply(cd, e)
    IN (Retired(cd, e) /\ Handled(r)) =>
         /\ r.out.error = "Stale" /\ ~Accepted(r)
         /\ SameProgress(r.cd, cd)
         /\ r.cd._consumed_msg_id = cd._consumed_msg_id
         /\ r.out.question = -1 /\ r.out.result = "none"

\* a running quiz with answers scored in which a tap on a retired question
\* message is rejected
C22_Witness ==
  /\ InProgress(chat_data) /\ chat_data.score > 0 /\ chat_data.last_message_id # 0
  /\ \E cd \in Arrivals, e \in TapEvents :
       e.m # cd.last_message_id /\ cd.last_has_kb /\ Apply(cd, e).out.error = "Stale"

\* C23: the feedback of an answer carries the explanation exactly if the
\* mode is learning, the answer is correct and the question has an
\* explanation, for button answers and text answers alike.
C23_ExplanationIffCorrect ==
  \A cd \in Arrivals, e \in AnswerEvents :
    LET r == Apply(cd, e)
        q == QuestionIndex(cd)
    IN Accepted(r) =>
         (r.out.explanation <=>
            (cd.mode = "learning" /\ r.out.feedback = "correct" /\ HasExplanation(q)))

\* the update ended the run: a summary or the fail-fast failure
Terminal(r) == r.out.result # "none"

\* chat_data without the timestamps of the anti-spam lock and of the start
\* debounce
Untimed(cd) == [cd EXCEPT !._lock_at = FALSE, !._last_start_at = FALSE]

\* C24: when an update reaches a terminal result (the summary or the exam's
\* fail-fast failure) the session is back at its defaults: mode, language,
\* score, wrong_count, cursor, exam question order and used_questions are
\* all cleared.
C24_TerminalResets ==
  \A cd \in Arrivals, e \in Updates :
    LET r == Apply(cd, e)
    IN Terminal(r) => Untimed(r.cd) = EmptyData

\* a bilingual learning session with answers of both kinds scored whose
\* next answer ends the run with the summary
C24_Witness ==
  /\ InProgress(chat_data) /\ chat_data.lang_mode = "bilingual"
  /\ chat_data.score > 0 /\ chat_data.wrong_count > 0
  /\ \E cd \in Arrivals, e \in AnswerEvents : Apply(cd, e).out.result = "learning"

\* the positions (1-based) of the exam order whose entry is not used
UnusedAt(cd) ==
  {i \in 1..Len(cd.exam_questions) : cd.exam_questions[i] \notin Range(cd.used_questions)}

\* the least element of a non-empty set of numbers
Least(S) == CHOOSE i \in S : \A j \in S : i <= j

\* send_question is about to select from exam data
Selecting(cd) == cd.mode = "exam" /\ Has(cd, "exam_questions") /\ ~cd._sending_question

\* C25: in exam mode send_question picks the first unused entry of the
\* order at or after the cursor, wraps to the first unused entry from the
\* start only if there is none, and renders the summary without a question
\* if no entry is unused; the picked position becomes the cursor and the
\* entry is appended to used_questions.
C25_ExamSelection ==
  Selecting(chat_data) =>
    LET cd == chat_data
        r == SendQuestion(World(cd), FALSE)
        ahead == {i \in UnusedAt(cd) : i - 1 >= cd.current_index}
        pick == IF ahead # {} THEN Least(ahead) ELSE Least(UnusedAt(cd))
    IN IF UnusedAt(cd) = {}
       THEN Summary(r) /\ r.out.question = -1 /\ ~InProgress(r.cd)
       ELSE /\ r.out.question = cd.exam_questions[pick]
            /\ r.cd.current_index = pick - 1
            /\ r.cd.used_questions = Append(cd.used_questions, cd.exam_questions[pick])
            /\ r.out.result = "none"

\* exam data in which the only unused entries lie before the cursor, so
\* that the selection wraps
C25_Witness ==
  /\ Selecting(chat_data) /\ UnusedAt(chat_data) # {}
  /\ \A i \in UnusedAt(chat_data) : i - 1 < chat_data.current_index
  /\ chat_data.current_index < Len(chat_data.exam_questions)
  /\ SendQuestion(World(chat_data), FALSE).cd.current_index < chat_data.current_index

\* C26: in every reachable state 0 <= cursor <= length of the question
\* order (len(bank) in learning mode, 30 in exam mode).
C26_CursorInRange ==
  0 <= chat_data.current_index /\ chat_data.current_index <= OrderLength(chat_data)

\* a learning session with answers scored whose cursor is on the last
\* question of the bank
C26_Witness ==
  /\ InProgress(chat_data) /\ chat_data.mode = "learning"
  /\ chat_data.score + chat_data.wrong_count > 0
  /\ chat_data.current_index + 1 = OrderLength(chat_data)
  /\ QuestionOpen(chat_data)

\* the update showed the language prompt: the session awaits a language
AsksLanguage(r) == r.out.prompt \in {"lang", "lang_continue"}

\* C27: a language choice taken at the language prompt that a start has
\* shown sets lang_mode to the chosen language, with cursor, score and
\* wrong_count all 0 when the mode prompt is shown.
C27_LanguageChosen ==
  \A cd \in Arrivals, s \in Restarts :
    LET r1 == Apply(cd, s)
    IN AsksLanguage(r1) =>
         \A next \in Later(r1.cd), e \in LanguageEvents :
           LET r2 == Apply(next, e)
           IN Handled(r2) =>
                /\ e.data = "lang_en" => r2.cd.lang_mode = "en"
                /\ e.data = "lang_bilingual" => r2.cd.lang_mode = "bilingual"
                /\ r2.cd.current_index = 0 /\ r2.cd.score = 0 /\ r2.cd.wrong_count = 0
                /\ r2.out.prompt = "mode"

\* a session with answers of both kinds scored that is restarted, and
\* whose language prompt is then answered with the other language
C27_Witness ==
  /\ chat_data.score > 0 /\ chat_data.wrong_count > 0 /\ chat_data.current_index > 0
  /\ \E cd \in Arrivals, s \in Restarts :
       LET r1 == Apply(cd, s)
       IN /\ AsksLanguage(r1)
          /\ \E next \in Later(r1.cd), e \in LanguageEvents :
               LET r2 == Apply(next, e)
               IN Handled(r2) /\ r2.cd.lang_mode # cd.lang_mode

\* the answers a user who keeps answering gives
LetterAnswers == LetterTaps \cup LetterTexts

\* the run is over: the session is cleared after a terminal result
Ended(r) == Terminal(r) /\ ~InProgress(r.cd)

\* C28: in a started quiz in which the user only keeps answering, an answer
\* that is accepted can always be given; every accepted answer moves the
\* cursor on by one and opens the next question, until the answer at the
\* last position of the order (the 30th in exam mode, the len(bank)-th in
\* learning mode) ends the run with the summary; only the exam's fail-fast
\* ends it earlier.  An answer that is not accepted leaves the run as it is.
C28_RunEnds ==
  Started(chat_data) =>
    /\ \E cd \in Arrivals, e \in LetterAnswers : Accepted(Apply(cd, e))
    /\ \A cd \in Arrivals, e \in LetterAnswers :
         LET r == Apply(cd, e)
             c == cd.current_index
         IN IF Accepted(r)
            THEN \/ /\ Started(r.cd) /\ r.cd.current_index = c + 1
                    /\ c + 1 < OrderLength(cd) /\ ~Terminal(r)
                 \/ /\ Ended(r) /\ c + 1 = OrderLength(cd) /\ Summary(r)
                 \/ /\ Ended(r) /\ r.out.result = "failed"
                    /\ cd.mode = "exam" /\ cd.wrong_count + 1 = FAIL_THRESHOLD
            ELSE SameProgress(r.cd, cd) /\ Started(r.cd)

\* an exam on its 30th question that was not failed, whose answer ends it
C28_Witness ==
  /\ Started(chat_data) /\ chat_data.mode = "exam"
  /\ chat_data.current_index = EXAM_SIZE - 1 /\ chat_data.score >= PASS_SCORE - 1
  /\ \E cd \in Arrivals, e \in LetterTaps : Apply(cd, e).out.result = "passed"

\* the updates that are commands: messages starting with '/'
Commands == StartEvents \cup StopEvents

\* C29 as stated: while the lock is held every update that is no command
\* is dropped without running its handler and leaves chat_data unchanged,
\* whereas a command always runs its handler; and no handler other than
\* start and stop leaves the lock free behind it.
C29_Original ==
  \A cd \in Arrivals, e \in Updates :
    LET r == Apply(cd, e)
    IN /\ (cd._lock_at /\ e \notin Commands) => (~Handled(r) /\ r.cd = cd)
       /\ e \in Commands => Handled(r)
       /\ (Handled(r) /\ ~r.cd._lock_at) => e \in Restarts \cup StopEvents

\* C29: while the lock is held every update that is no command is dropped
\* without running its handler and leaves chat_data unchanged, whereas a
\* command always runs its handler; a handler leaves the lock free behind
\* it only if it is start or stop, or if it reached a terminal result and
\* cleared chat_data.
C29_LockHolds ==
  \A cd \in Arrivals, e \in Updates :
    LET r == Apply(cd, e)
    IN /\ (cd._lock_at /\ e \notin Commands) => (~Handled(r) /\ r.cd = cd)
       /\ e \in Commands => Handled(r)
       /\ (Handled(r) /\ ~r.cd._lock_at) =>
            (e \in Restarts \cup StopEvents \/ Ended(r))

\* a running quiz with the lock held, in which a tap on the open question
\* is dropped while a command runs
C29_Witness ==
  /\ chat_data._lock_at /\ QuestionOpen(chat_data) /\ chat_data.current_index > 0
  /\ \E e \in TapEvents :
       e.m = chat_data.last_message_id /\ ~Handled(Apply(chat_data, e))
  /\ \E e \in Commands : Handled(Apply(chat_data, e))

\* the text answers that name no option
StrayTexts == TextEvents \ LetterTexts

\* C30: a text answer that resolves to no option does not advance the quiz:
\* score, wrong_count, cursor and used_questions are unchanged, nothing is
\* rendered and the question that was open stays open.
C30_StrayTextIgnored ==
  \A cd \in Arrivals, e \in StrayTexts :
    LET r == Apply(cd, e)
    IN Handled(r) =>
         /\ SameProgress(r.cd, cd) /\ ~Accepted(r)
         /\ r.out.question = -1 /\ r.out.result = "none"
         /\ r.cd.last_message_id = cd.last_message_id
         /\ r.cd.last_has_kb = cd.last_has_kb
         /\ r.cd._consumed_msg_id = cd._consumed_msg_id

\* a running quiz with an answer scored and a question open, in which a
\* text that names no option is told to be unrecognized
C30_Witness ==
  /\ QuestionOpen(chat_data) /\ chat_data.score > 0
  /\ \E cd \in Arrivals, e \in StrayTexts : Apply(cd, e).out.error = "Unrecognized"

\* the answers a user can send: option taps, texts and question numbers
Replies == AnswerEvents \cup NumberEvents

C32_SummaryRemembered ==
  \A cd \in Arrivals, e \in Updates :
    LET r == Apply(cd, e)
    IN Summary(r) => r.cd.summary_message_id # 0

\* a question message with its keyboard is on the screen
Pending(cd) == cd.last_message_id # 0 /\ cd.last_has_kb

\* C33: every accepted answer is scored against the question rendered last
\* and still pending: the update that renders a question leaves the state in
\* which the answer lookup finds that question (bank[cursor] in learning
\* mode, the last of used_questions in exam mode), and no answer is accepted
\* while no question is pending.
C33_ScoredAgainstPending ==
  /\ \A cd \in Arrivals, e \in Updates :
       LET r == Apply(cd, e)
       IN r.out.question # -1 => (Pending(r.cd) /\ QuestionIndex(r.cd) = r.out.question)
  /\ \A cd \in Arrivals, a \in AnswerEvents :
       Accepted(Apply(cd, a)) => Pending(cd)

\* the recorded outcomes of an exam do not exceed the questions presented
ExamBound(cd) ==
  (Has(cd, "mode") /\ cd.mode = "exam") =>
    /\ cd.score + cd.wrong_count <= Len(cd.used_questions)
    /\ Len(cd.used_questions) <= EXAM_SIZE

\* C34: in exam mode score + wrong_count <= len(used_questions) <= 30 in
\* every reachable state, under every interleaving of button answers, text
\* answers, language, mode, pause and resume taps and restarts.
C34_ExamBound == ExamBound(chat_data)

C34_Witness ==
  /\ Has(chat_data, "mode") /\ chat_data.mode = "exam"
  /\ chat_data.score > 0 /\ chat_data.wrong_count > 0
  /\ chat_data.score + chat_data.wrong_count + 1 = Len(chat_data.used_questions)
  /\ Len(chat_data.used_questions) > MaxLearnAnswers

\* the questions of the exam presented so far that brought no point
Slack(cd) == Len(cd.used_questions) - cd.score

\* an exam run is under way
InExam(cd) == Has(cd, "mode") /\ cd.mode = "exam" /\ cd.used_questions # <<>>

\* the incorrect answers the update scored
Missed(r) == IF r.out.feedback = "incorrect" THEN 1 ELSE 0

\* C35: pass and failure are consistent.  An exam run starts, by a mode tap
\* only, with one question presented and no point; every later update of
\* the run keeps the questions without a point at least as many, and an
\* incorrect answer, by button or by text, adds one; the update that
\* renders "passed" finds at most 6 of them, its own incorrect answer
\* included, so at most 5 incorrect answers were submitted in the run.  A
\* fail-fast clears the session and the next update renders no summary.
C35_PassConsistent ==
  /\ \A cd \in Arrivals, e \in ModeEvents :
       LET r == Apply(cd, e)
       IN (Handled(r) /\ InExam(r.cd)) => Slack(r.cd) = 1
  /\ \A cd \in Arrivals, e \in Updates \ ModeEvents :
       LET r == Apply(cd, e)
       IN /\ InExam(r.cd) => InExam(cd)
          /\ (InExam(cd) /\ InExam(r.cd)) => Slack(r.cd) >= Slack(cd) + Missed(r)
  /\ \A cd \in Arrivals, e \in Updates :
       LET r == Apply(cd, e)
       IN /\ r.out.result = "passed" =>
               (InExam(cd) /\ Slack(cd) + Missed(r) <= FAIL_THRESHOLD)
          /\ r.out.result = "failed" =>
               /\ Unlocked(r.cd) = EmptyData
               /\ \A n \in Later(r.cd), e2 \in Updates : ~Summary(Apply(n, e2))

\* the last question of an exam with 6 questions already without a point
\* and fewer than 6 counted mistakes: an incorrect text ends the run with
\* "not passed"
C35_Witness ==
  /\ InExam(chat_data) /\ Len(chat_data.used_questions) = EXAM_SIZE
  /\ Slack(chat_data) > FAIL_THRESHOLD /\ chat_data.wrong_count < FAIL_THRESHOLD
  /\ \E cd \in Arrivals, e \in LetterTexts :
       LET r == Apply(cd, e)
       IN r.out.feedback = "incorrect" /\ r.out.result = "not_passed"

\* C36: dispatch is first-match in registration order: a 'mode_pause'
\* callback goes to handle_mode, never to handle_pause.  It sets exam mode
\* with the counters reset and, the bank allowing an exam, a new sample
\* whose first question is rendered; paused is not set and resume_question
\* keeps its value.
C36_PauseIsModeChoice ==
  /\ Dispatch("mode_pause") = "handle_mode"
  /\ \A cd \in Arrivals, e \in PauseEvents :
       LET r == Apply(cd, e)
       IN Handled(r) =>
            /\ r.out.handler = "handle_mode"
            /\ ~r.cd.paused /\ r.cd.resume_question = cd.resume_question
            /\ Has(r.cd, "mode") /\ r.cd.mode = "exam"
            /\ r.cd.score = 0 /\ r.cd.wrong_count = 0 /\ r.cd.current_index = 0
            /\ IF bank >= EXAM_SIZE
               THEN /\ r.cd.exam_questions = SampleTable[bank, e.seed]
                    /\ r.cd.used_questions = <<r.cd.exam_questions[1]>>
                    /\ r.out.question = r.cd.exam_questions[1]
               ELSE r.out.error = "InsufficientQuestions" /\ r.out.question = -1

\* a learning run with points, mistakes and an open question in which
\* 'mode_pause' is tapped and the first question of an exam appears
C36_Witness ==
  /\ QuestionOpen(chat_data) /\ chat_data.mode = "learning"
  /\ chat_data.score > 0 /\ chat_data.wrong_count > 0
  /\ \E cd \in Arrivals, e \in PauseEvents :
       LET r == Apply(cd, e)
       IN r.out.handler = "handle_mode" /\ r.out.question # -1 /\ r.cd.mode = "exam"

\* the session as handle_pause leaves it
Paused(cd) == HandlePause(World(cd)).cd

C38_NextNeverActive ==
  /\ ~chat_data.awaiting_next
  /\ \A cd \in Arrivals, e \in NextEvents :
       LET r == Apply(cd, e)
       IN Handled(r) =>
            /\ r.out.handler = "next_handler" /\ r.out.error = "NotActive"
            /\ SameProgress(r.cd, cd) /\ r.cd.exam_questions = cd.exam_questions
            /\ r.out.question = -1 /\ r.out.result = "none"
  /\ \A cd \in Arrivals, e \in NextEvents \cup AnswerEvents :
       LET r == Apply(cd, e)
       IN r.cd.current_index # cd.current_index => (e \in AnswerEvents /\ Accepted(r))

\* an exam past its first question with a point scored and a question
\* open: each of NEXT, CONTINUE and RESTART reaches next_handler, and an
\* answer moves the cursor on
C38_Witness ==
  /\ InExam(chat_data) /\ QuestionOpen(chat_data)
  /\ chat_data.score > 0 /\ chat_data.current_index > 0
  /\ \A d \in {"NEXT", "CONTINUE", "RESTART"} :
       \E cd \in Arrivals, e \in NextEvents :
         e.data = d /\ Apply(cd, e).out.error = "NotActive"
  /\ \E cd \in Arrivals, e \in AnswerEvents :
       Apply(cd, e).cd.current_index = cd.current_index + 1

====
